---------------------------- MODULE Spec2Model ----------------------------
(***************************************************************************)
(* The request handler of elwa-dc (src/main.rs): one raw status frame is   *)
(* read from the device, split on tabs, bound positionally to the          *)
(* StatusTag schema, converted field by field into a Status record and     *)
(* rendered.  Text is modelled as sequences of bytes (ASCII codes), so     *)
(* that tokenising, the line terminator and the parsers act on the actual  *)
(* characters.                                                             *)
(***************************************************************************)
EXTENDS Integers, Sequences, FiniteSets, TLC

(***************************************************************************)
(* Bounds of the model.                                                    *)
(***************************************************************************)
\* Longest frame the serial device supplies, in tab-separated tokens.
MaxTokens == 31
\* Most tokens of the sample frame replaced at once in a device frame.
MaxEdits == 2

(***************************************************************************)
(* Characters and bytes.                                                   *)
(***************************************************************************)
\* The base64 alphabet of general_purpose::STANDARD, in value order.
B64Alphabet ==
  <<"A", "B", "C", "D", "E", "F", "G", "H", "I", "J", "K", "L", "M", "N", "O", "P",
    "Q", "R", "S", "T", "U", "V", "W", "X", "Y", "Z", "a", "b", "c", "d", "e", "f",
    "g", "h", "i", "j", "k", "l", "m", "n", "o", "p", "q", "r", "s", "t", "u", "v",
    "w", "x", "y", "z", "0", "1", "2", "3", "4", "5", "6", "7", "8", "9", "+", "/">>

IndexOf(c, s) == CHOOSE i \in 1..Len(s) : s[i] = c

\* The ASCII code of a character written as a one-character string.
Ord(c) ==
  IF \E i \in 1..64 : B64Alphabet[i] = c
  THEN LET i == IndexOf(c, B64Alphabet)
       IN  IF i <= 26 THEN 64 + i
           ELSE IF i <= 52 THEN 96 + (i - 26)
           ELSE IF i <= 62 THEN 48 + (i - 53)
           ELSE IF i = 63 THEN 43 ELSE 47
  ELSE CASE c = "." -> 46
         [] c = "-" -> 45
         [] c = "\t" -> 9
         [] c = "\n" -> 10
         [] c = "\r" -> 13

\* A text literal as the bytes of its UTF-8 (here ASCII) encoding.
Bytes(s) == [i \in 1..Len(s) |-> Ord(s[i])]

TAB == 9
LF == 10
CR == 13
\* A byte that occurs in no valid UTF-8 text.
BadByte == 255

(***************************************************************************)
(* read_device, feature "dummy": the canned sample, base64-encoded.        *)
(***************************************************************************)
SAMPLE_OUTPUT ==
  <<"Z", "H", "I", "J", "V", "j", "E", "u", "M", "z", "E", "J", "M", "z", "U", "J", "M", "T", "I", "J",
    "M", "Q", "k", "x", "C", "T", "E", "J", "M", "j", "M", "1", "C", "T", "E", "3", "N", "Q", "k", "y",
    "N", "D", "U", "J", "N", "z", "U", "5", "C", "T", "Y", "1", "M", "A", "k", "y", "N", "Q", "k", "5",
    "M", "A", "k", "x", "O", "D", "k", "u", "N", "Q", "k", "x", "O", "T", "A", "u", "M", "D", "M", "J",
    "M", "S", "4", "x", "N", "D", "M", "1", "C", "T", "I", "x", "N", "y", "4", "y", "O", "Q", "k", "3",
    "N", "z", "g", "J", "O", "T", "E", "3", "M", "j", "U", "J", "M", "A", "k", "t", "N", "w", "k", "3",
    "L", "j", "k", "J", "N", "T", "I", "1", "C", "T", "M", "2", "O", "A", "k", "z", "N", "T", "g", "J",
    "M", "j", "Q", "w", "C", "T", "E", "J", "M", "T", "I", "w", "M", "T", "A", "w", "M", "j", "M", "w",
    "M", "j", "E", "w", "M", "D", "A", "y", "M", "w", "k", "3", "N", "T", "k", "J", "N", "g", "0", "K">>


IsB64(c) == \E i \in 1..64 : B64Alphabet[i] = c
B64Value(c) == IndexOf(c, B64Alphabet) - 1

\* Four sextets to three bytes.
B64Quad(q) ==
  LET v == [i \in 1..4 |-> B64Value(q[i])]
  IN  << v[1] * 4 + v[2] \div 16,
         (v[2] % 16) * 16 + v[3] \div 4,
         (v[3] % 4) * 64 + v[4] >>

\* The bytes of a run of whole quads: byte j comes from quad (j - 1) \div 3.
B64Body(s) ==
  [j \in 1..(3 * (Len(s) \div 4)) |->
     B64Quad(SubSeq(s, 4 * ((j - 1) \div 3) + 1, 4 * ((j - 1) \div 3) + 4))
       [((j - 1) % 3) + 1]]

\* general_purpose::STANDARD.decode: padded, canonical base64.  The result
\* is [ok, val]: Ok(bytes) or Err(DecodeError).
Base64Decode(s) ==
  LET n   == Len(s)
      pad == IF n >= 2 /\ s[n] = "=" /\ s[n - 1] = "=" THEN 2
             ELSE IF n >= 1 /\ s[n] = "=" THEN 1 ELSE 0
      sym == SubSeq(s, 1, n - pad)
  IN  IF n % 4 # 0 \/ \E i \in 1..Len(sym) : ~IsB64(sym[i])
      THEN [ok |-> FALSE, val |-> <<>>]
      ELSE LET full == B64Body(sym \o [i \in 1..pad |-> "A"])
           IN  [ok |-> TRUE, val |-> SubSeq(full, 1, Len(full) - pad)]

(***************************************************************************)
(* std::str::from_utf8 and str::split('\t').                               *)
(***************************************************************************)
\* from_utf8 accepts the bytes iff they are valid UTF-8.  Every byte of the
\* model is ASCII or BadByte, and on such input validity is "all ASCII".
Utf8Valid(bytes) == \A i \in 1..Len(bytes) : bytes[i] < 128

\* split('\t'): find the next tab, yield the text before it, go on after it;
\* the text after the last tab is the last token.  Always at least one
\* token, empty tokens kept (acc holds the tokens yielded so far).
RECURSIVE SplitFrom(_, _, _)
SplitFrom(s, start, acc) ==
  LET tabs == {i \in start..Len(s) : s[i] = TAB}
  IN  IF tabs = {} THEN Append(acc, SubSeq(s, start, Len(s)))
      ELSE LET next == CHOOSE i \in tabs : \A j \in tabs : i <= j
           IN  SplitFrom(s, next + 1, Append(acc, SubSeq(s, start, next - 1)))

\* Mutant of Split: empty tokens are dropped, as split_whitespace would.
SplitSkippingEmpty(s) == SelectSeq(SplitFrom(s, 1, <<>>), LAMBDA tok : tok # <<>>)

Split(s) == SplitFrom(s, 1, <<>>)

(***************************************************************************)
(* The schema: StatusTag in definition order, which is the order           *)
(* StatusTag::iter() yields.                                               *)
(***************************************************************************)
\* Mutant of StatusTag: GeraeteTemp and IsoMessung change places.
StatusTagSwapped ==
  << "Dummy0", "Firmware", "Betriebstag", "Status", "DcTrenner", "DcRelais",
     "AcRelais", "Wassertemp", "WassertempMin", "WassertempMax",
     "SolltempSolar", "SolltempNetz", "IsoMessung", "GeraeteTemp",
     "Solarspannung", "Dummy5", "Solarstrom", "Solarleistung",
     "SolarenergieHeute", "SolarenergieGesamt", "NetzenergieHeute",
     "Dummy6", "Dummy7", "Dummy8", "Dummy9", "Dummy10", "Dummy11", "Dummy12",
     "Seriennummer", "Dummy13" >>

StatusTag ==
  << "Dummy0", "Firmware", "Betriebstag", "Status", "DcTrenner", "DcRelais",
     "AcRelais", "Wassertemp", "WassertempMin", "WassertempMax",
     "SolltempSolar", "SolltempNetz", "GeraeteTemp", "IsoMessung",
     "Solarspannung", "Dummy5", "Solarstrom", "Solarleistung",
     "SolarenergieHeute", "SolarenergieGesamt", "NetzenergieHeute",
     "Dummy6", "Dummy7", "Dummy8", "Dummy9", "Dummy10", "Dummy11", "Dummy12",
     "Seriennummer", "Dummy13" >>

Min(a, b) == IF a < b THEN a ELSE b

\* Iterator::zip: pairs up to the shorter of the two.
Zip(a, b) == [i \in 1..Min(Len(a), Len(b)) |-> <<a[i], b[i]>>]

\* collect::<HashMap<_, _>>(): insert the pairs in order, a later pair
\* replacing an earlier one with the same key.
Collect(pairs) ==
  LET keys == {pairs[i][1] : i \in 1..Len(pairs)}
      last(k) == CHOOSE i \in 1..Len(pairs) :
                   /\ pairs[i][1] = k
                   /\ \A j \in 1..Len(pairs) : pairs[j][1] = k => j <= i
  IN  [k \in keys |-> pairs[last(k)][2]]

\* The binding built by the handler.
BuildStatusMap(text) == Collect(Zip(StatusTag, Split(text)))

(***************************************************************************)
(* str::parse for the integer and float types the record uses.  A result   *)
(* is [ok, val, err]: Ok(val), or Err(err) with err the message the error  *)
(* displays.                                                               *)
(***************************************************************************)
U8_MAX == 255
\* u32::MAX is 4294967295 = 10 * U32_MAX_DIV10 + 5.
U32_MAX_DIV10 == 429496729

IsDigit(b) == b >= 48 /\ b <= 57
DigitVal(b) == b - 48

Ok(v) == [ok |-> TRUE, val |-> v, err |-> ""]
Err(e) == [ok |-> FALSE, val |-> 0, err |-> e]

\* The digit loop of from_str_radix for an unsigned type whose MAX is
\* 10 * q + r: an invalid digit is reported when reached, an overflow when
\* the value read so far can no longer take the next digit.
RECURSIVE UIntDigits(_, _, _, _, _)
UIntDigits(s, i, result, q, r) ==
  IF i > Len(s) THEN Ok(result)
  ELSE IF ~IsDigit(s[i]) THEN Err("invalid digit found in string")
  ELSE IF result > q \/ (result = q /\ DigitVal(s[i]) > r)
       THEN Err("number too large to fit in target type")
  ELSE UIntDigits(s, i + 1, result * 10 + DigitVal(s[i]), q, r)

\* <unsigned>::from_str: an optional "+", then at least one digit.
ParseUInt(s, q, r) ==
  IF s = <<>> THEN Err("cannot parse integer from empty string")
  ELSE IF Len(s) = 1 /\ s[1] \in {43, 45} THEN Err("invalid digit found in string")
  ELSE IF s[1] = 43 THEN UIntDigits(s, 2, 0, q, r)
  ELSE UIntDigits(s, 1, 0, q, r)

ParseU8(s) == ParseUInt(s, U8_MAX \div 10, U8_MAX % 10)
ParseU32(s) == ParseUInt(s, U32_MAX_DIV10, 5)

\* A decimal value m / 10^e, kept with no trailing zero in the fraction, so
\* that equal values are equal records.  (f32 rounding is not modelled: the
\* values of the model are the decimals the tokens denote.)
RECURSIVE Dec(_, _)
Dec(m, e) ==
  IF e > 0 /\ m % 10 = 0 THEN Dec(m \div 10, e - 1) ELSE [m |-> m, e |-> e]

\* d / n for n a power of ten (1.0, 10.0, ...).
RECURSIVE DivBy(_, _)
DivBy(d, n) == IF n <= 1 THEN d ELSE DivBy(Dec(d.m, d.e + 1), n \div 10)

RECURSIVE DigitsValue(_, _, _)
DigitsValue(s, i, acc) ==
  IF i > Len(s) THEN acc ELSE DigitsValue(s, i + 1, acc * 10 + DigitVal(s[i]))

\* f32::from_str on text without exponent, "inf" or "nan" (no token of the
\* model holds the letters for them): an optional sign, then digits with at
\* most one ".", at least one digit in all.
ParseF32(s) ==
  IF s = <<>> THEN Err("cannot parse float from empty string")
  ELSE
    LET signed == s[1] \in {43, 45}
        body   == IF signed THEN SubSeq(s, 2, Len(s)) ELSE s
        dots   == {i \in 1..Len(body) : body[i] = 46}
        digits == {i \in 1..Len(body) : IsDigit(body[i])}
    IN  IF \/ digits = {}
           \/ Cardinality(dots) > 1
           \/ digits \cup dots # 1..Len(body)
        THEN Err("invalid float literal")
        ELSE
          LET dot  == IF dots = {} THEN Len(body) + 1 ELSE CHOOSE i \in dots : TRUE
              all  == SubSeq(body, 1, dot - 1) \o SubSeq(body, dot + 1, Len(body))
              frac == IF dots = {} THEN 0 ELSE Len(body) - dot
              mag  == DigitsValue(all, 1, 0)
          IN  Ok(Dec(IF s[1] = 45 THEN 0 - mag ELSE mag, frac))

(***************************************************************************)
(* The Status record: its fields in the order the struct literal of the    *)
(* handler evaluates them, each with the tag it looks up, the type it      *)
(* parses the token as and the divisor it applies to the parsed value.     *)
(***************************************************************************)
\* Mutant of Divisor: the device temperature is taken for tenths as well.
DivisorAllTemperatures(name) ==
  IF name \in {"wassertemp", "wassertemp_min", "wassertemp_max",
               "solltemp_solar", "solltemp_netz", "geraetetemp"}
  THEN 10 ELSE 1

\* The five water and target temperatures are divided by 10.0; no other
\* field is scaled.
Divisor(name) ==
  IF name \in {"wassertemp", "wassertemp_min", "wassertemp_max",
               "solltemp_solar", "solltemp_netz"}
  THEN 10 ELSE 1

\* Mutant of ConstructionOrder: the fields are evaluated in wire order.
WireOrder ==
  << "firmware", "betriebstag", "status", "dc_trenner", "dc_relais",
     "ac_relais", "wassertemp", "wassertemp_min", "wassertemp_max",
     "solltemp_solar", "solltemp_netz", "geraetetemp", "iso_messung",
     "solarspannung", "solarstrom", "solarleistung", "solarenergie_heute",
     "solarenergie_gesamt", "netzenergie_heute", "seriennummer" >>

\* The fields of the struct literal, in the order it evaluates them.
ConstructionOrder ==
  << "wassertemp", "wassertemp_min", "wassertemp_max", "solltemp_solar",
     "solltemp_netz", "solarspannung", "solarstrom", "solarleistung",
     "solarenergie_heute", "solarenergie_gesamt", "netzenergie_heute",
     "iso_messung", "geraetetemp", "status", "dc_trenner", "dc_relais",
     "ac_relais", "betriebstag", "firmware", "seriennummer" >>

\* The tag each field looks up.
TagOf(name) ==
  CASE name = "wassertemp"          -> "Wassertemp"
    [] name = "wassertemp_min"      -> "WassertempMin"
    [] name = "wassertemp_max"      -> "WassertempMax"
    [] name = "solltemp_solar"      -> "SolltempSolar"
    [] name = "solltemp_netz"       -> "SolltempNetz"
    [] name = "solarspannung"       -> "Solarspannung"
    [] name = "solarstrom"          -> "Solarstrom"
    [] name = "solarleistung"       -> "Solarleistung"
    [] name = "solarenergie_heute"  -> "SolarenergieHeute"
    [] name = "solarenergie_gesamt" -> "SolarenergieGesamt"
    [] name = "netzenergie_heute"   -> "NetzenergieHeute"
    [] name = "iso_messung"         -> "IsoMessung"
    [] name = "geraetetemp"         -> "GeraeteTemp"
    [] name = "status"              -> "Status"
    [] name = "dc_trenner"          -> "DcTrenner"
    [] name = "dc_relais"           -> "DcRelais"
    [] name = "ac_relais"           -> "AcRelais"
    [] name = "betriebstag"         -> "Betriebstag"
    [] name = "firmware"            -> "Firmware"
    [] name = "seriennummer"        -> "Seriennummer"

\* The type each field parses its token as: f32 for the quantities, u32 for
\* the counters, u8 compared with 0 for the flags, the token itself for the
\* two strings.
TypeOf(name) ==
  IF name \in {"iso_messung", "status", "betriebstag"} THEN "u32"
  ELSE IF name \in {"dc_trenner", "dc_relais", "ac_relais"} THEN "bool"
  ELSE IF name \in {"firmware", "seriennummer"} THEN "str"
  ELSE "f32"

Field(name) ==
  [name |-> name, tag |-> TagOf(name), ty |-> TypeOf(name), div |-> Divisor(name)]

StatusFields == [k \in 1..Len(ConstructionOrder) |-> Field(ConstructionOrder[k])]

NumFields == Len(StatusFields)
FieldNames == {StatusFields[k].name : k \in 1..NumFields}

\* Mutant of NonZero: only 1 counts as set.
NonZeroIsOne(n) == n = 1

\* parsed != 0
NonZero(n) == n # 0

\* The value expression of one field, applied to the token it looked up:
\* parse::<f32>()? / 10.0, parse()?, parse::<u8>()? != 0, or the token itself.
Convert(f, tok) ==
  CASE f.ty = "f32" ->
         LET p == ParseF32(tok)
         IN  IF p.ok THEN Ok(DivBy(p.val, f.div)) ELSE p
    [] f.ty = "u32" -> ParseU32(tok)
    [] f.ty = "bool" ->
         LET p == ParseU8(tok)
         IN  IF p.ok THEN Ok(NonZero(p.val)) ELSE p
    [] f.ty = "str" -> Ok(tok)

(***************************************************************************)
(* What the serial device may send: read_until(b'\n') returns the bytes up *)
(* to and including the first line feed.  The frames of the model are the  *)
(* sample frame cut to 1..MaxTokens tokens, ended by LF or CR LF, with     *)
(* tokens replaced by tokens of EditPool.                                  *)
(***************************************************************************)
SampleFrame == Base64Decode(SAMPLE_OUTPUT).val

\* The tokens of the sample frame, its CR LF aside.
SampleTokens == Split(SubSeq(SampleFrame, 1, Len(SampleFrame) - 2))

DeviceTokens ==
  [i \in 1..MaxTokens |->
     IF i <= Len(SampleTokens) THEN SampleTokens[i] ELSE Bytes(<<"0">>)]

EditPool ==
  { Bytes(<<"0">>), Bytes(<<"1">>), Bytes(<<"2">>), Bytes(<<"2", "5", "6">>),
    Bytes(<<"2", "3", "5">>), Bytes(<<"V", "1", ".", "3", "1">>), <<>>,
    Bytes(<<"-", "7">>), Bytes(<<"7", ".", "9">>), <<BadByte>> }

\* Tokens no numeric field parses, and the slots they replace several at once.
BadTokens == { Bytes(<<"V", "1", ".", "3", "1">>), Bytes(<<"2", "5", "6">>), <<>> }
MultiEditTags ==
  { "Betriebstag", "DcTrenner", "Wassertemp", "Dummy5", "Solarleistung",
    "Seriennummer" }

Terminators == { <<LF>>, <<CR, LF>> }

\* The tokens with a tab between neighbours.
RECURSIVE Join(_)
Join(toks) ==
  IF Len(toks) = 1 THEN toks[1]
  ELSE LET h == Len(toks) \div 2
       IN  Join(SubSeq(toks, 1, h)) \o <<TAB>> \o Join(SubSeq(toks, h + 1, Len(toks)))

RECURSIVE Edited(_, _, _, _)
Edited(toks, k, positions, pool) ==
  IF k = 0 THEN {toks}
  ELSE LET prev == Edited(toks, k - 1, positions, pool)
       IN  prev \cup { [t EXCEPT ![p] = b] :
                         t \in prev, p \in positions \cap DOMAIN toks, b \in pool }

DeviceFrames ==
  { Join(SubSeq(t, 1, n)) \o term :
      t \in Edited(DeviceTokens, 1, 1..MaxTokens, EditPool),
      n \in 1..MaxTokens, term \in Terminators }
  \cup
  { Join(t) \o <<CR, LF>> :
      t \in Edited(DeviceTokens, MaxEdits,
                   {IndexOf(tag, StatusTag) : tag \in MultiEditTags}, BadTokens) }

\* The contexts read_device attaches to a failure of the serial port.
TransportFailures ==
  { "Could not open serial device port",
    "Could not write to serial connection",
    "Could not read from serial connection" }

(***************************************************************************)
(* Rendering: the arguments of the report template, in order.              *)
(***************************************************************************)
Shown(val, unit) == [val |-> val, unit |-> unit]

w(q)   == Shown(q, "W")
kw(q)  == Shown(DivBy(q, 1000), "kW")
wh(q)  == Shown(q, "Wh")
kwh(q) == Shown(DivBy(q, 1000), "kWh")
v(q)   == Shown(q, "V")
a(q)   == Shown(q, "A")
c(q)   == Shown(q, "degC")

Report(s) ==
  << c(s.wassertemp), c(s.wassertemp_min), c(s.wassertemp_max),
     c(s.solltemp_solar), c(s.solltemp_netz),
     v(s.solarspannung), a(s.solarstrom),
     kw(s.solarleistung), w(s.solarleistung),
     kwh(s.solarenergie_heute), wh(s.solarenergie_heute),
     kwh(s.solarenergie_gesamt), wh(s.solarenergie_gesamt),
     kwh(s.netzenergie_heute), wh(s.netzenergie_heute),
     Shown(s.iso_messung, ""), c(s.geraetetemp), Shown(s.status, ""),
     Shown(s.dc_trenner, ""), Shown(s.dc_relais, ""), Shown(s.ac_relais, ""),
     Shown(s.betriebstag, ""), Shown(s.firmware, ""), Shown(s.seriennummer, "") >>

\* AppError::into_response: status 500 and the error's debug rendering, the
\* outermost message first and its causes after it.
\* A piece of response text that is fixed in the program.
Lit(text) == [lit |-> text]

ErrorResponse(chain) ==
  [code |-> 500,
   body |-> <<Lit("Internal Server Error:")>> \o [i \in 1..Len(chain) |-> Lit(chain[i])]]

OkResponse(s) == [code |-> 200, body |-> Report(s)]

NoResponse == [code |-> 0, body |-> <<>>]

(***************************************************************************)
(* The handler, one request at a time.                                     *)
(***************************************************************************)
VARIABLES
  dummy,        \* whether the build has feature "dummy"
  pc,           \* where the handler is
  data,         \* the bytes read_device returned
  data_string,  \* the text from_utf8 made of them
  status_map,   \* the binding of tags to tokens
  idx,          \* the field of the struct literal evaluated next
  fields,       \* the field values evaluated so far
  looked,       \* the tags looked up in status_map, in order
  status,       \* the Status record, once constructed
  panic,        \* the message of the panic that unwound the handler
  response      \* what the client received

vars ==
  << dummy, pc, data, data_string, status_map, idx, fields, looked, status,
     panic, response >>

Empty == [x \in {} |-> x]

Init ==
  /\ dummy \in BOOLEAN
  /\ pc = "idle"
  /\ data = <<>>
  /\ data_string = <<>>
  /\ status_map = Empty
  /\ idx = 0
  /\ fields = Empty
  /\ looked = <<>>
  /\ status = Empty
  /\ panic = ""
  /\ response = NoResponse

\* The router hands a GET / to a fresh run of handler; nothing of an earlier
\* run, whether it returned or panicked, is kept.
Request ==
  /\ pc \in {"idle", "done", "panicked"}
  /\ pc' = "read"
  /\ data' = <<>>
  /\ data_string' = <<>>
  /\ status_map' = Empty
  /\ idx' = 0
  /\ fields' = Empty
  /\ looked' = <<>>
  /\ status' = Empty
  /\ panic' = ""
  /\ response' = NoResponse
  /\ UNCHANGED dummy

\* return Err(e) out of the handler: the temporaries are dropped, no record
\* is constructed, the error becomes the response.
Fail(chain) ==
  /\ pc' = "done"
  /\ fields' = Empty
  /\ response' = ErrorResponse(chain)

\* A panic unwinds the handler and the connection task with it: the client
\* gets no response.
Panic(msg) ==
  /\ pc' = "panicked"
  /\ fields' = Empty
  /\ panic' = msg
  /\ response' = NoResponse

ReadDeviceDummy ==
  /\ pc = "read"
  /\ dummy
  /\ LET r == Base64Decode(SAMPLE_OUTPUT)
     IN  IF r.ok
         THEN /\ data' = r.val
              /\ pc' = "utf8"
              /\ UNCHANGED <<fields, response>>
         ELSE /\ Fail(<<"Could not retrieve device data", "Invalid base64">>)
              /\ UNCHANGED data
  /\ UNCHANGED <<dummy, data_string, status_map, idx, looked, status, panic>>

ReadDeviceSerial ==
  /\ pc = "read"
  /\ ~dummy
  /\ \E frame \in DeviceFrames : data' = frame
  /\ pc' = "utf8"
  /\ UNCHANGED <<dummy, data_string, status_map, idx, fields, looked, status,
                 panic, response>>

ReadDeviceFails ==
  /\ pc = "read"
  /\ ~dummy
  /\ \E cause \in TransportFailures :
       Fail(<<"Could not retrieve device data", cause>>)
  /\ UNCHANGED <<dummy, data, data_string, status_map, idx, looked, status, panic>>

\* std::str::from_utf8(&data).unwrap()
DecodeUtf8 ==
  /\ pc = "utf8"
  /\ IF Utf8Valid(data)
     THEN /\ data_string' = data
          /\ pc' = "bind"
          /\ UNCHANGED <<fields, panic, response>>
     ELSE /\ Panic("called Result::unwrap() on an Err value: Utf8Error")
          /\ UNCHANGED data_string
  /\ UNCHANGED <<dummy, data, status_map, idx, looked, status>>

Bind ==
  /\ pc = "bind"
  /\ status_map' = BuildStatusMap(data_string)
  /\ pc' = "build"
  /\ idx' = 1
  /\ UNCHANGED <<dummy, data, data_string, fields, looked, status, panic, response>>

\* Mutant of FieldOutcome: the parse result is unwrapped, not returned.
FieldOutcomeUnwrap(f, map) ==
  IF f.tag \notin DOMAIN map
  THEN [kind |-> "panic", msg |-> "no entry found for key"]
  ELSE LET r == Convert(f, map[f.tag])
       IN  IF r.ok THEN [kind |-> "value", val |-> r.val]
           ELSE [kind |-> "panic", msg |-> r.err]

\* Mutant of FieldOutcome: a token that does not parse counts as zero.
FieldOutcomeDefaulting(f, map) ==
  IF f.tag \notin DOMAIN map
  THEN [kind |-> "panic", msg |-> "no entry found for key"]
  ELSE LET r == Convert(f, map[f.tag])
       IN  [kind |-> "value", val |-> IF r.ok THEN r.val ELSE 0]

\* One field expression of the struct literal: status_map[&tag] panics when
\* the tag is not a key; a failed parse returns its error through "?";
\* otherwise the field has its value.
FieldOutcome(f, map) ==
  IF f.tag \notin DOMAIN map
  THEN [kind |-> "panic", msg |-> "no entry found for key"]
  ELSE LET r == Convert(f, map[f.tag])
       IN  IF r.ok THEN [kind |-> "value", val |-> r.val]
           ELSE [kind |-> "error", msg |-> r.err]

\* The handler evaluates the next field; the last field completes the record.
ConvertField ==
  /\ pc = "build"
  /\ LET f == StatusFields[idx]
         o == FieldOutcome(f, status_map)
     IN  /\ looked' = Append(looked, f.tag)
         /\ CASE o.kind = "panic" ->
                   /\ Panic(o.msg)
                   /\ UNCHANGED <<idx, status>>
              [] o.kind = "error" ->
                   /\ Fail(<<o.msg>>)
                   /\ UNCHANGED <<idx, status, panic>>
              [] o.kind = "value" ->
                   /\ fields' = fields @@ (f.name :> o.val)
                   /\ idx' = idx + 1
                   /\ IF idx = NumFields
                      THEN /\ status' = fields'
                           /\ pc' = "render"
                      ELSE /\ status' = status
                           /\ pc' = "build"
                   /\ UNCHANGED <<panic, response>>
  /\ UNCHANGED <<dummy, data, data_string, status_map>>

Render ==
  /\ pc = "render"
  /\ response' = OkResponse(status)
  /\ pc' = "done"
  /\ UNCHANGED <<dummy, data, data_string, status_map, idx, fields, looked,
                 status, panic>>

Next ==
  \/ Request
  \/ ReadDeviceDummy
  \/ ReadDeviceSerial
  \/ ReadDeviceFails
  \/ DecodeUtf8
  \/ Bind
  \/ ConvertField
  \/ Render

Spec == Init /\ [][Next]_vars

(***************************************************************************)
(* Properties.                                                             *)
(***************************************************************************)
Last(s) == s[Len(s)]

\* The handler is past the binding step of the current request.
Bound == idx >= 1

\* The tokens of a text, stated by position: token i is the tab-free bytes
\* that have exactly i - 1 tabs before them.
TabsOf(s) == {j \in 1..Len(s) : s[j] = TAB}
NumTokens(s) == Cardinality(TabsOf(s)) + 1
TokenAt(s, i) ==
  LET P == {p \in 1..Len(s) :
              s[p] # TAB /\ Cardinality({j \in TabsOf(s) : j < p}) = i - 1}
  IN  IF P = {} THEN <<>>
      ELSE SubSeq(s, CHOOSE lo \in P : \A p \in P : lo <= p,
                     CHOOSE hi \in P : \A p \in P : hi >= p)

\* The record of a successful decode agrees with `expected` on every field
\* `expected` names.
RecordHas(expected) ==
  /\ response.code = 200
  /\ \A name \in DOMAIN expected : status[name] = expected[name]

\* The first 18 tokens of the sample frame, as the claim lists them.
C1_SampleHead ==
  << Bytes(<<"d", "r">>), Bytes(<<"V", "1", ".", "3", "1">>), Bytes(<<"3", "5">>),
     Bytes(<<"1", "2">>), Bytes(<<"1">>), Bytes(<<"1">>), Bytes(<<"1">>),
     Bytes(<<"2", "3", "5">>), Bytes(<<"1", "7", "5">>), Bytes(<<"2", "4", "5">>),
     Bytes(<<"7", "5", "9">>), Bytes(<<"6", "5", "0">>), Bytes(<<"2", "5">>),
     Bytes(<<"9", "0">>), Bytes(<<"1", "8", "9", ".", "5">>),
     Bytes(<<"1", "9", "0", ".", "0", "3">>),
     Bytes(<<"1", ".", "1", "4", "3", "5">>),
     Bytes(<<"2", "1", "7", ".", "2", "9">>) >>

\* The fields on which the claim and the code agree.
C1_Common ==
  [ firmware       |-> Bytes(<<"V", "1", ".", "3", "1">>),
    betriebstag    |-> 35,
    status         |-> 12,
    dc_trenner     |-> TRUE,
    dc_relais      |-> TRUE,
    ac_relais      |-> TRUE,
    wassertemp     |-> [m |-> 235, e |-> 1],
    wassertemp_min |-> [m |-> 175, e |-> 1],
    wassertemp_max |-> [m |-> 245, e |-> 1],
    solltemp_solar |-> [m |-> 759, e |-> 1],
    solltemp_netz  |-> [m |-> 65, e |-> 0],
    solarspannung  |-> [m |-> 1895, e |-> 1] ]

\* C1 as stated: decoding the sample frame of the dummy read_device yields
\* geraetetemp 90, iso_messung 25, solarstrom 190.03, solarleistung 1.1435
\* and seriennummer "12010023021000023" (besides the common fields).
C1_Original ==
  (dummy /\ pc = "done") =>
    /\ RecordHas(C1_Common)
    /\ RecordHas([ geraetetemp   |-> [m |-> 90, e |-> 0],
                   iso_messung   |-> 25,
                   solarstrom    |-> [m |-> 19003, e |-> 2],
                   solarleistung |-> [m |-> 11435, e |-> 4],
                   seriennummer  |->
                     Bytes(<<"1", "2", "0", "1", "0", "0", "2", "3", "0", "2",
                             "1", "0", "0", "0", "0", "2", "3">>) ])

\* C1 (amended): the frame the dummy read_device returns has 31 tokens, the
\* first 18 as listed, and decodes to the common fields and geraetetemp 25,
\* iso_messung 90, solarstrom 1.1435, solarleistung 217.29 and seriennummer
\* "1201002302100023": token 12 is the device temperature, token 13 the
\* insulation measurement, token 15 is unused, tokens 16 and 17 are current
\* and power.
C1_SampleDecodes ==
  (dummy /\ pc = "done") =>
    /\ NumTokens(data) = 31
    /\ \A i \in 1..Len(C1_SampleHead) : TokenAt(data, i) = C1_SampleHead[i]
    /\ RecordHas(C1_Common)
    /\ RecordHas([ geraetetemp   |-> [m |-> 25, e |-> 0],
                   iso_messung   |-> 90,
                   solarstrom    |-> [m |-> 11435, e |-> 4],
                   solarleistung |-> [m |-> 21729, e |-> 2],
                   seriennummer  |->
                     Bytes(<<"1", "2", "0", "1", "0", "0", "2", "3", "0", "2",
                             "1", "0", "0", "0", "2", "3">>) ])

C1_Witness == dummy /\ pc = "done" /\ response.code = 200 /\ Len(looked) = 20

\* C2: once the frame is bound, the tags bound are exactly the first
\* min(30, token count) tags of the schema, unused slots included, and tag i
\* holds token i of the frame, whatever the tokens hold.
C2_PositionalBinding ==
  (pc = "build" /\ idx = 1) =>
    LET k == Min(30, NumTokens(data_string))
    IN  /\ DOMAIN status_map = {StatusTag[i] : i \in 1..k}
        /\ \A i \in 1..k : status_map[StatusTag[i]] = TokenAt(data_string, i)

\* A full frame whose unused slot Dummy5 holds an empty token, and a frame
\* that stops short of the schema, are bound.
C2_Witness ==
  /\ pc = "build" /\ idx = 1
  /\ NumTokens(data_string) > 30
  /\ status_map["Dummy5"] = <<>>
  /\ "Dummy13" \in DOMAIN status_map

\* The field evaluated last, and the token it looked up.
LastField == StatusFields[Len(looked)]
LastToken == status_map[LastField.tag]

\* The handler stopped at a field whose tag has no token.
StoppedAtMissing ==
  /\ Bound /\ looked # <<>>
  /\ LastField.tag \notin DOMAIN status_map

\* The handler stopped at a field whose token does not parse as its type.
StoppedAtUnparsable ==
  /\ Bound /\ looked # <<>>
  /\ LastField.tag \in DOMAIN status_map
  /\ ~Convert(LastField, LastToken).ok

\* A piece of response text that quotes bytes of the frame.
Raw(bytes) == [raw |-> bytes]

Mentions(piece) == \E i \in 1..Len(response.body) : response.body[i] = piece

\* C3 as stated: a field whose slot has no token makes the decode return an
\* error that names the slot's tag, rendered as a 500 response.
C3_Claim ==
  StoppedAtMissing =>
    /\ pc = "done"
    /\ response.code = 500
    /\ Mentions(Lit(LastField.tag))

\* C4 as stated: a token that does not parse makes the decode fail with an
\* error that carries the slot's tag and the raw token.
C4_Original ==
  StoppedAtUnparsable =>
    /\ pc = "done"
    /\ response.code = 500
    /\ Mentions(Lit(LastField.tag))
    /\ Mentions(Raw(LastToken))

\* The message of the parser's error, by the type parsed and the token.
C4_Messages(ty, tok) ==
  IF ty = "f32"
  THEN IF tok = <<>> THEN {"cannot parse float from empty string"}
       ELSE {"invalid float literal"}
  ELSE IF tok = <<>> THEN {"cannot parse integer from empty string"}
       ELSE {"invalid digit found in string",
             "number too large to fit in target type"}

\* C4 (amended): a token that does not parse makes the decode return the
\* parser's own error, rendered as a 500 response that holds the parser's
\* message for the kind of failure and neither the slot's tag nor the token.
C4_ParseErrorReturned ==
  StoppedAtUnparsable =>
    /\ pc = "done"
    /\ response.code = 500
    /\ Len(response.body) = 2
    /\ response.body[1] = Lit("Internal Server Error:")
    /\ \E m \in C4_Messages(LastField.ty, LastToken) : response.body[2] = Lit(m)
    /\ ~Mentions(Lit(LastField.tag))
    /\ ~Mentions(Raw(LastToken))

\* "V1.31" in the Solarleistung slot stops the decode at solarleistung.
C4_Witness ==
  /\ StoppedAtUnparsable
  /\ LastField.name = "solarleistung"
  /\ LastToken = Bytes(<<"V", "1", ".", "3", "1">>)
  /\ response.code = 500

\* C5 as stated: bytes that are not valid UTF-8 make the handler return an
\* error, rendered as a 500 response; the request is not aborted.
C5_Claim ==
  (pc \in {"done", "panicked"} /\ ~Utf8Valid(data)) =>
    /\ pc = "done"
    /\ response.code = 500

\* The flag fields, by their place in the construction order.
FlagFields == {k \in 1..NumFields : StatusFields[k].ty = "bool"}

\* An unsigned integer literal: an optional "+", then digits only.
Unsigned(tok) == IF tok # <<>> /\ tok[1] = 43 THEN Tail(tok) ELSE tok
IsUIntLiteral(tok) ==
  /\ Unsigned(tok) # <<>>
  /\ \A i \in 1..Len(Unsigned(tok)) : IsDigit(Unsigned(tok)[i])
UIntValue(tok) == DigitsValue(Unsigned(tok), 1, 0)

\* The flag evaluated last decoded to b.
FlagDecoded(b) == pc = "build" /\ fields[LastField.name] = b
\* The flag evaluated last failed to parse.
FlagRejected == pc = "done" /\ response.code = 500 /\ fields = Empty

\* The handler has just evaluated a flag whose slot has a token.
AtFlag == Bound /\ Len(looked) \in FlagFields /\ LastField.tag \in DOMAIN status_map

\* C6 as stated: "0" decodes to false, every nonzero unsigned integer token
\* (above 255 too) to true, a non-numeric token is a parse error.
C6_Original ==
  AtFlag =>
    IF ~IsUIntLiteral(LastToken) THEN FlagRejected
    ELSE FlagDecoded(UIntValue(LastToken) # 0)

\* C6 (amended): "0" decodes to false, every unsigned integer token from 1
\* to 255 to true; an unsigned integer token above 255 and a non-numeric
\* token are parse errors.
C6_FlagDecoding ==
  AtFlag =>
    /\ LastToken = Bytes(<<"0">>) => FlagDecoded(FALSE)
    /\ LastToken = Bytes(<<"1">>) => FlagDecoded(TRUE)
    /\ IF ~IsUIntLiteral(LastToken) THEN FlagRejected
       ELSE IF UIntValue(LastToken) > 255
       THEN FlagRejected /\ Mentions(Lit("number too large to fit in target type"))
       ELSE FlagDecoded(UIntValue(LastToken) # 0)

\* "256" in the DcTrenner slot is rejected.
C6_Witness ==
  /\ AtFlag
  /\ LastField.name = "dc_trenner"
  /\ LastToken = Bytes(<<"2", "5", "6">>)
  /\ FlagRejected

\* The handler has just given a numeric field its value.
AtNumber ==
  /\ Bound /\ looked # <<>> /\ pc = "build"
  /\ LastField.ty \in {"f32", "u32"}

\* The field evaluated last is its parsed wire value divided by div[name].
ScaledBy(div) ==
  LET f == LastField
  IN  IF f.ty = "f32"
      THEN fields[f.name] = DivBy(ParseF32(LastToken).val, div[f.name])
      ELSE div[f.name] = 1 /\ fields[f.name] = ParseU32(LastToken).val

C7_Tenths ==
  {"wassertemp", "wassertemp_min", "wassertemp_max", "solltemp_solar", "solltemp_netz"}
C7_Milli ==
  {"solarleistung", "solarenergie_heute", "solarenergie_gesamt", "netzenergie_heute"}

\* C7 as stated: divisor 10 for the five temperatures, 1000 for
\* solarleistung and the three energies, 1 for every other numeric field.
C7_Original ==
  AtNumber =>
    ScaledBy([n \in FieldNames |->
                IF n \in C7_Tenths THEN 10 ELSE IF n \in C7_Milli THEN 1000 ELSE 1])

\* C7 (amended): divisor 10 for the five temperatures (token "235" gives
\* 23.5), and 1 for every other numeric field: solarleistung, the three
\* energies, solarspannung, solarstrom, geraetetemp (token "235" gives 235),
\* iso_messung, status and betriebstag.
C7_Scaling ==
  AtNumber =>
    /\ ScaledBy([n \in FieldNames |-> IF n \in C7_Tenths THEN 10 ELSE 1])
    /\ LastToken = Bytes(<<"2", "3", "5">>) =>
         /\ LastField.name \in C7_Tenths => fields[LastField.name] = [m |-> 235, e |-> 1]
         /\ LastField.name = "geraetetemp" => fields[LastField.name] = [m |-> 235, e |-> 0]

\* Token "235" in both the Wassertemp and the GeraeteTemp slot.
C7_Witness ==
  /\ AtNumber
  /\ LastField.name = "geraetetemp"
  /\ LastToken = Bytes(<<"2", "3", "5">>)
  /\ status_map["Wassertemp"] = Bytes(<<"2", "3", "5">>)
  /\ fields["wassertemp"] = [m |-> 235, e |-> 1]
  /\ fields["solarleistung"] = [m |-> 21729, e |-> 2]

\* Every field of the record has a token that converts.
AllConverted ==
  /\ Bound
  /\ \A k \in 1..NumFields :
       /\ StatusFields[k].tag \in DOMAIN status_map
       /\ Convert(StatusFields[k], status_map[StatusFields[k].tag]).ok

\* The texts an error response is made of; none is taken from the frame.
FixedMessages ==
  { "Internal Server Error:", "Could not retrieve device data", "Invalid base64",
    "cannot parse float from empty string", "invalid float literal",
    "cannot parse integer from empty string", "invalid digit found in string",
    "number too large to fit in target type" } \cup TransportFailures

\* C8: a report is rendered only of a record whose 20 fields all converted,
\* and is the report of exactly those values; a record exists only then; a
\* handler that ended otherwise left no record and no converted value, and
\* its response, if any, holds fixed text only.
C8_AllOrNothing ==
  /\ (response.code = 200 \/ status # Empty) =>
       /\ AllConverted
       /\ DOMAIN status = FieldNames
       /\ \A k \in 1..NumFields :
            status[StatusFields[k].name] =
              Convert(StatusFields[k], status_map[StatusFields[k].tag]).val
  /\ response.code = 200 => response.body = Report(status)
  /\ (pc \in {"done", "panicked"} /\ response.code # 200) =>
       /\ status = Empty
       /\ fields = Empty
       /\ \A i \in 1..Len(response.body) :
            \E m \in FixedMessages : response.body[i] = Lit(m)

\* A decode that failed after it had converted ten fields.
C8_Witness ==
  /\ pc = "done"
  /\ response.code = 500
  /\ Len(looked) = 11

HasTerminator(tok) == \E i \in 1..Len(tok) : tok[i] \in {CR, LF}

\* C9 as stated, for the strings of the record: the line terminator of an
\* LF- or CRLF-terminated frame is never part of a decoded string.
C9_Claim ==
  (response.code = 200 /\ Last(data) = LF) =>
    /\ ~HasTerminator(status["firmware"])
    /\ ~HasTerminator(status["seriennummer"])

\* The construction order as the claim lists it.
C10_Order ==
  << "wassertemp", "wassertemp_min", "wassertemp_max", "solltemp_solar",
     "solltemp_netz", "solarspannung", "solarstrom", "solarleistung",
     "solarenergie_heute", "solarenergie_gesamt", "netzenergie_heute",
     "iso_messung", "geraetetemp", "status", "dc_trenner", "dc_relais",
     "ac_relais", "betriebstag", "firmware", "seriennummer" >>

\* The places, in that order, of the fields whose slot is missing or whose
\* token does not parse.
Offenders ==
  {k \in 1..Len(C10_Order) :
     LET f == Field(C10_Order[k])
     IN  \/ f.tag \notin DOMAIN status_map
         \/ ~Convert(f, status_map[f.tag]).ok}

FirstOffender == CHOOSE k \in Offenders : \A j \in Offenders : k <= j

\* C10: fields are looked up in the construction order, one after the
\* other; a frame with offending slots ends the handler at the first of
\* them in that order, with that slot's failure, and no later slot is
\* looked up.
C10_FirstFailureInConstructionOrder ==
  /\ looked = [i \in 1..Len(looked) |-> TagOf(C10_Order[i])]
  /\ (Bound /\ pc \in {"done", "panicked"} /\ Offenders # {}) =>
       LET f == Field(C10_Order[FirstOffender])
       IN  /\ Len(looked) = FirstOffender
           /\ IF f.tag \notin DOMAIN status_map
              THEN pc = "panicked" /\ panic = "no entry found for key"
              ELSE /\ pc = "done"
                   /\ response = ErrorResponse(<<Convert(f, status_map[f.tag]).err>>)
  /\ (Bound /\ pc \in {"done", "panicked"} /\ Offenders = {}) => Len(looked) = 20

\* Two slots whose tokens do not parse, the one reported not the first of
\* them on the wire.
C10_Witness ==
  /\ Bound /\ pc = "done"
  /\ Cardinality(Offenders) >= 2
  /\ \A k \in Offenders : TagOf(C10_Order[k]) \in DOMAIN status_map
  /\ \E k \in Offenders :
       /\ TagOf(C10_Order[k]) \in DOMAIN status_map
       /\ ~Convert(Field(C10_Order[k]), status_map[TagOf(C10_Order[k])]).ok
       /\ IndexOf(TagOf(C10_Order[k]), StatusTag) < IndexOf(Last(looked), StatusTag)

====
